---- MODULE Spec2Model ----
(***************************************************************************)
(* Model of the expense tracker: ExpenseManager (expense_manager.py) and   *)
(* the add/edit handlers of ExpenseUI (enhanced_ui.py).                    *)
(*                                                                         *)
(* A Python str is a sequence of one-character strings.  A Decimal is a    *)
(* record [kind, sign, coef, exp]: kind "finite" is (-1)^sign * coef *     *)
(* 10^exp, kinds "Infinity" and "NaN" are the special values, and kind     *)
(* "invalid" is the outcome of a conversion that raises                    *)
(* decimal.InvalidOperation.                                               *)
(***************************************************************************)
EXTENDS Integers, Sequences, FiniteSets, TLC

VARIABLES
    expenses,   \* ExpenseManager.expenses: the in-memory list of Expense
    file,       \* data/expenses.csv: sequence of rows, each a tuple of field texts
    backups,    \* data/backups: set of [name, content], name = timestamp
    config,     \* ExpenseManager.config (the keys the operations read)
    config_file, \* data/config.json: the JSON document last written
    now,        \* datetime.now() at second resolution
    last,       \* the last call made on the manager or UI, with its outcome
    stack,      \* call stack of a running get_monthly_report / _get_budget_status
    ret         \* the value the callee that just returned handed to its caller

vars == <<expenses, file, backups, config, config_file, now, last, stack, ret>>

----------------------------------------------------------------------------
(* Bounds of the model *)

\* longest record sequence the store grows to
MaxLen == 2

\* the seconds datetime.now() takes
Seconds == 1..2

----------------------------------------------------------------------------
(* Characters and strings *)

Digits == <<"0", "1", "2", "3", "4", "5", "6", "7", "8", "9">>

IsDigit(c) == \E i \in 1..10 : Digits[i] = c

DigitVal(c) == (CHOOSE i \in 1..10 : Digits[i] = c) - 1

AllDigits(s) == \A i \in 1..Len(s) : IsDigit(s[i])

UpperChars == <<"A", "B", "C", "D", "E", "F", "G", "H", "I", "J", "K", "L", "M",
                "N", "O", "P", "Q", "R", "S", "T", "U", "V", "W", "X", "Y", "Z">>

LowerChars == <<"a", "b", "c", "d", "e", "f", "g", "h", "i", "j", "k", "l", "m",
                "n", "o", "p", "q", "r", "s", "t", "u", "v", "w", "x", "y", "z">>

\* str.lower() on one character
LowerChar(c) ==
    IF \E i \in 1..26 : UpperChars[i] = c
    THEN LowerChars[CHOOSE i \in 1..26 : UpperChars[i] = c]
    ELSE c

\* str.lower()
Lower(s) == [i \in 1..Len(s) |-> LowerChar(s[i])]

Whitespace == {" ", "\t", "\n", "\r"}

\* str.strip(): drop leading and trailing whitespace
Strip(s) ==
    LET keep == {i \in 1..Len(s) : s[i] \notin Whitespace}
    IN  IF keep = {} THEN <<>>
        ELSE LET lo == CHOOSE i \in keep : \A j \in keep : i <= j
                 hi == CHOOSE i \in keep : \A j \in keep : j <= i
             IN  SubSeq(s, lo, hi)

\* str.startswith(prefix)
StartsWith(s, prefix) ==
    /\ Len(prefix) <= Len(s)
    /\ SubSeq(s, 1, Len(prefix)) = prefix

\* int(text) for a text of decimal digits
RECURSIVE StrToNat(_)
StrToNat(s) ==
    IF s = <<>> THEN 0
    ELSE 10 * StrToNat(SubSeq(s, 1, Len(s) - 1)) + DigitVal(s[Len(s)])

\* str(n) for a natural number n
RECURSIVE NatToStr(_)
NatToStr(n) ==
    IF n < 10 THEN <<Digits[n + 1]>>
    ELSE NatToStr(n \div 10) \o <<Digits[(n % 10) + 1]>>

RECURSIVE Pow10(_)
Pow10(n) == IF n <= 0 THEN 1 ELSE 10 * Pow10(n - 1)

Zeros(n) == [i \in 1..n |-> "0"]

----------------------------------------------------------------------------
(* decimal.Decimal *)

Dec(sign, coef, exp) == [kind |-> "finite", sign |-> sign, coef |-> coef, exp |-> exp]

DecNaN == [kind |-> "NaN", sign |-> 0, coef |-> 0, exp |-> 0]

DecInf(sign) == [kind |-> "Infinity", sign |-> sign, coef |-> 0, exp |-> 0]

\* the conversion raised decimal.InvalidOperation
DecInvalid == [kind |-> "invalid", sign |-> 0, coef |-> 0, exp |-> 0]

\* digits [. digits] with the exponent e already read; body is split at dot
SplitNumber(sign, ip, fp, e) ==
    IF AllDigits(ip) /\ AllDigits(fp) /\ Len(ip) + Len(fp) >= 1
    THEN Dec(sign, StrToNat(ip \o fp), e - Len(fp))
    ELSE DecInvalid

\* digits [. digits], dots being the places of "." in body
NumberWithDots(sign, body, e, dots) ==
    IF dots = {} THEN SplitNumber(sign, body, <<>>, e)
    ELSE IF Cardinality(dots) > 1 THEN DecInvalid
    ELSE SplitNumber(sign,
                     SubSeq(body, 1, (CHOOSE i \in dots : TRUE) - 1),
                     SubSeq(body, (CHOOSE i \in dots : TRUE) + 1, Len(body)),
                     e)

ParseNumber(sign, body, e) ==
    NumberWithDots(sign, body, e, {i \in 1..Len(body) : body[i] = "."})

\* [sign] digits after the "e" of a number
ParseExponent(sign, body, ex, ed) ==
    IF Len(ed) >= 1 /\ AllDigits(ed)
    THEN ParseNumber(sign, body,
                     IF ex[1] = "-" THEN 0 - StrToNat(ed) ELSE StrToNat(ed))
    ELSE DecInvalid

\* the text u after its sign, k being the place of its first "e" (0: none)
ParseUnsigned(sgn, u, k) ==
    IF u \in {<<"n", "a", "n">>, <<"s", "n", "a", "n">>} THEN DecNaN
    ELSE IF u \in {<<"i", "n", "f">>,
                   <<"i", "n", "f", "i", "n", "i", "t", "y">>} THEN DecInf(sgn)
    ELSE IF k = 0 THEN ParseNumber(sgn, u, 0)
    ELSE ParseExponent(sgn, SubSeq(u, 1, k - 1), SubSeq(u, k + 1, Len(u)),
                       IF k < Len(u) /\ u[k + 1] \in {"-", "+"}
                       THEN SubSeq(u, k + 2, Len(u))
                       ELSE SubSeq(u, k + 1, Len(u)))

\* place of the first c in s, 0 when there is none
FirstIndex(s, c) ==
    IF \E i \in 1..Len(s) : s[i] = c
    THEN CHOOSE i \in 1..Len(s) : s[i] = c /\ \A j \in 1..(i - 1) : s[j] # c
    ELSE 0

\* the text t, stripped and in lower case, read as [sign] number
ParseSigned(t) ==
    IF Len(t) >= 1 /\ t[1] \in {"-", "+"}
    THEN ParseUnsigned(IF t[1] = "-" THEN 1 ELSE 0, Tail(t), FirstIndex(Tail(t), "e"))
    ELSE ParseUnsigned(0, t, FirstIndex(t, "e"))

\* Decimal(text): the text is stripped, underscores are dropped, case is
\* ignored; [sign] digits [. digits] [E [sign] digits] | Inf[inity] | [s]NaN.
\* Any other text raises InvalidOperation (ConversionSyntax).
DecimalFromString(text) ==
    ParseSigned(Lower(SelectSeq(Strip(text), LAMBDA c : c # "_")))

\* the digits int of the coefficient laid out around the point at dotplace,
\* followed by the exponent e
Layout(sg, int, dotplace, e) ==
    sg \o (IF dotplace <= 0 THEN <<"0">>
           ELSE IF dotplace >= Len(int) THEN int \o Zeros(dotplace - Len(int))
           ELSE SubSeq(int, 1, dotplace))
       \o (IF dotplace <= 0 THEN <<".">> \o Zeros(0 - dotplace) \o int
           ELSE IF dotplace >= Len(int) THEN <<>>
           ELSE <<".">> \o SubSeq(int, dotplace + 1, Len(int)))
       \o (IF e = 0 THEN <<>>
           ELSE IF e > 0 THEN <<"E", "+">> \o NatToStr(e)
           ELSE <<"E", "-">> \o NatToStr(0 - e))

\* plain notation when exp <= 0 and the value is not too small (more than
\* -6 digits left of the point), scientific notation otherwise
FormatDigits(sg, int, exp, leftdigits) ==
    IF exp <= 0 /\ leftdigits > -6
    THEN Layout(sg, int, leftdigits, 0)
    ELSE Layout(sg, int, 1, leftdigits - 1)

\* str(Decimal): the exponent is kept, so trailing zeros of the coefficient
\* are printed
DecimalToString(d) ==
    IF d.kind = "NaN" THEN (IF d.sign = 1 THEN <<"-">> ELSE <<>>) \o <<"N", "a", "N">>
    ELSE IF d.kind = "Infinity"
    THEN (IF d.sign = 1 THEN <<"-">> ELSE <<>>)
         \o <<"I", "n", "f", "i", "n", "i", "t", "y">>
    ELSE FormatDigits(IF d.sign = 1 THEN <<"-">> ELSE <<>>, NatToStr(d.coef),
                      d.exp, d.exp + Len(NatToStr(d.coef)))

\* >= 0 in place of > 0
DecGtZero_NonNegative(d) ==
    CASE d.kind = "NaN"      -> "raise"
      [] d.kind = "Infinity" -> IF d.sign = 0 THEN "true" ELSE "false"
      [] OTHER               -> IF d.sign = 0 THEN "true" ELSE "false"

\* Decimal > 0: "raise" when the comparison raises InvalidOperation (NaN)
DecGtZero(d) ==
    CASE d.kind = "NaN"      -> "raise"
      [] d.kind = "Infinity" -> IF d.sign = 0 THEN "true" ELSE "false"
      [] OTHER               -> IF d.sign = 0 /\ d.coef > 0 THEN "true" ELSE "false"

\* coefficient of a finite Decimal rescaled to exponent e (e <= d.exp)
Rescale(d, e) == d.coef * Pow10(d.exp - e)

\* a + b, as sum() adds finite amounts: exact, exponent = the smaller one
DecAdd(a, b) ==
    IF a.kind = "Infinity" \/ b.kind = "Infinity" THEN DecInf(0)
    ELSE LET e  == IF a.exp < b.exp THEN a.exp ELSE b.exp
             sa == IF a.sign = 1 THEN 0 - Rescale(a, e) ELSE Rescale(a, e)
             sb == IF b.sign = 1 THEN 0 - Rescale(b, e) ELSE Rescale(b, e)
             s  == sa + sb
         IN  IF s < 0 THEN Dec(1, 0 - s, e) ELSE Dec(0, s, e)

\* a == b on Decimals is numeric: 1E+2 == 100.00
DecEq(a, b) ==
    IF a.kind # "finite" \/ b.kind # "finite"
    THEN a.kind = b.kind /\ a.sign = b.sign /\ a.kind # "NaN"
    ELSE LET e == IF a.exp < b.exp THEN a.exp ELSE b.exp
         IN  /\ Rescale(a, e) = Rescale(b, e)
             /\ (a.sign = b.sign \/ a.coef = 0)

\* the context's rounding mode: decimal.getcontext() is never changed, so
\* quantize rounds ROUND_HALF_EVEN; q and r are quotient and remainder of the
\* coefficient by the divisor p
RoundHalfEven(q, r, p) ==
    IF 2 * r > p \/ (2 * r = p /\ q % 2 = 1) THEN q + 1 ELSE q

\* Decimal.quantize(Decimal('0.01')) in the default context
Quantize2(d) ==
    IF d.kind = "NaN" THEN DecNaN
    ELSE IF d.kind # "finite" THEN DecInvalid
    ELSE IF d.exp >= -2 THEN Dec(d.sign, d.coef * Pow10(d.exp + 2), -2)
    ELSE LET p == Pow10(-2 - d.exp)
         IN  Dec(d.sign, RoundHalfEven(d.coef \div p, d.coef % p, p), -2)

----------------------------------------------------------------------------
(* Dates: datetime.strptime(date_str, "%Y-%m-%d") *)

\* regex of %m: 1[0-2]|0[1-9]|[1-9]
MatchMonth(m) ==
    \/ Len(m) = 2 /\ m[1] = "1" /\ m[2] \in {"0", "1", "2"}
    \/ Len(m) = 2 /\ m[1] = "0" /\ IsDigit(m[2]) /\ m[2] # "0"
    \/ Len(m) = 1 /\ IsDigit(m[1]) /\ m[1] # "0"

\* regex of %d: 3[0-1]|[1-2]\d|0[1-9]|[1-9]| [1-9]
MatchDay(d) ==
    \/ Len(d) = 2 /\ d[1] = "3" /\ d[2] \in {"0", "1"}
    \/ Len(d) = 2 /\ d[1] \in {"1", "2"} /\ IsDigit(d[2])
    \/ Len(d) = 2 /\ d[1] \in {"0", " "} /\ IsDigit(d[2]) /\ d[2] # "0"
    \/ Len(d) = 1 /\ IsDigit(d[1]) /\ d[1] # "0"

IsLeap(y) == (y % 4 = 0 /\ y % 100 # 0) \/ y % 400 = 0

\* every month taken to have 31 days
DaysInMonth_Always31(y, m) == 31

DaysInMonth(y, m) ==
    IF m = 2 THEN (IF IsLeap(y) THEN 29 ELSE 28)
    ELSE IF m \in {4, 6, 9, 11} THEN 30 ELSE 31

\* strptime succeeds: the whole text matches \d\d\d\d-%m-%d (the fields may
\* be unpadded) and names a date of the calendar from year 1 on
StrptimeYmd(s) ==
    /\ Len(s) >= 8
    /\ AllDigits(SubSeq(s, 1, 4))
    /\ s[5] = "-"
    /\ \E k \in 1..2 :
          LET m == SubSeq(s, 6, 5 + k)
              d == SubSeq(s, 7 + k, Len(s))
          IN  /\ s[6 + k] = "-"
              /\ MatchMonth(m)
              /\ MatchDay(d)
              /\ StrToNat(SubSeq(s, 1, 4)) >= 1
              /\ StrToNat(Strip(d)) <= DaysInMonth(StrToNat(SubSeq(s, 1, 4)), StrToNat(m))

\* ExpenseManager.validate_date: ValueError becomes False. The program
\* never writes config['date_format'], so it is the default "%Y-%m-%d".
validate_date(cfg, date_str) ==
    cfg.date_format = "%Y-%m-%d" /\ StrptimeYmd(date_str)

\* the answer of validate_amount once Decimal(amount_str) is known
PositiveAmount(amount) ==
    IF amount.kind = "invalid" THEN "InvalidOperation"
    ELSE CASE DecGtZero(amount) = "raise" -> "InvalidOperation"
           [] DecGtZero(amount) = "true"  -> "True"
           [] OTHER                       -> "False"

\* ExpenseManager.validate_amount: "True", "False", or "InvalidOperation"
\* when Decimal(amount_str) or the comparison raises: InvalidOperation is an
\* ArithmeticError, which except (ValueError, TypeError) does not catch
validate_amount(amount_str) == PositiveAmount(DecimalFromString(amount_str))

----------------------------------------------------------------------------
(* Records and the expenses file *)

Expense(date, category, amount, description) ==
    [date |-> date, category |-> category, amount |-> amount,
     description |-> description]

\* csv fieldnames, in column order
Fieldnames == <<"date", "category", "amount", "description">>

\* the amount written without the trailing zero of its coefficient
to_dict_Normalized(e) ==
    <<e.date, e.category,
      DecimalToString(IF e.amount.kind = "finite" /\ e.amount.coef % 10 = 0
                         /\ e.amount.coef > 0
                      THEN Dec(e.amount.sign, e.amount.coef \div 10, e.amount.exp + 1)
                      ELSE e.amount),
      e.description>>

\* Expense.to_dict: the row written for an expense, one text per column
to_dict(e) == <<e.date, e.category, DecimalToString(e.amount), e.description>>

\* column of a field in a file with the given header row
Column(header, name) == CHOOSE i \in 1..Len(header) : header[i] = name

\* content of the file save_expenses writes: the header and one row per
\* expense, in order (both branches of the if write the header)
SavedFile(exps) ==
    [header |-> Fieldnames, rows |-> [i \in 1..Len(exps) |-> to_dict(exps[i])]]

\* the Expense load_expenses builds from a row read by csv.DictReader
RowExpense(header, row) ==
    Expense(row[Column(header, "date")],
            row[Column(header, "category")],
            DecimalFromString(row[Column(header, "amount")]),
            row[Column(header, "description")])

\* rows whose amount makes Decimal(row['amount']) raise
BadRows(f) ==
    {i \in 1..Len(f.rows) : RowExpense(f.header, f.rows[i]).amount.kind = "invalid"}

\* the list load_expenses leaves in self.expenses: every row, or the rows
\* before the first one that raised
LoadedExpenses(f) ==
    LET n == IF BadRows(f) = {} THEN Len(f.rows)
             ELSE (CHOOSE i \in BadRows(f) : \A j \in BadRows(f) : i <= j) - 1
    IN  [i \in 1..n |-> RowExpense(f.header, f.rows[i])]

----------------------------------------------------------------------------
(* Backups *)

BackupKeep == 10

\* list[:-BackupKeep] read as list[BackupKeep:]: the oldest names are kept
BackupData_Oldest(bk, f, t) ==
    LET copied == {b \in bk : b.name # t} \cup {[name |-> t, content |-> f]}
    IN  IF Cardinality(copied) > BackupKeep
        THEN {b \in copied :
                Cardinality({c \in copied : c.name < b.name}) < BackupKeep}
        ELSE copied

\* ExpenseManager.backup_data at time t: copy the file to the backup named
\* by t (replacing a backup of the same second), then keep the BackupKeep
\* last names in sorted order
BackupData(bk, f, t) ==
    LET copied == {b \in bk : b.name # t} \cup {[name |-> t, content |-> f]}
    IN  IF Cardinality(copied) > BackupKeep
        THEN {b \in copied :
                Cardinality({c \in copied : c.name > b.name}) < BackupKeep}
        ELSE copied

----------------------------------------------------------------------------
(* Budgets: config["budgets"], month -> category -> str(limit) *)

NoBudgets == [m \in {} |-> m]

\* a > b on Decimals: "raise" when either is NaN (InvalidOperation)
DecGt(a, b) ==
    IF a.kind \in {"NaN", "invalid"} \/ b.kind \in {"NaN", "invalid"} THEN "raise"
    ELSE IF a.kind = "Infinity" \/ b.kind = "Infinity"
    THEN (IF /\ \/ a.kind = "Infinity" /\ a.sign = 0
                \/ b.kind = "Infinity" /\ b.sign = 1
             /\ ~(a.kind = b.kind /\ a.sign = b.sign)
          THEN "true" ELSE "false")
    ELSE LET e  == IF a.exp < b.exp THEN a.exp ELSE b.exp
             sa == IF a.sign = 1 THEN 0 - Rescale(a, e) ELSE Rescale(a, e)
             sb == IF b.sign = 1 THEN 0 - Rescale(b, e) ELSE Rescale(b, e)
         IN  IF sa > sb THEN "true" ELSE "false"

\* sum(...) of a sequence of Decimal amounts, starting from the int 0
RECURSIVE SumAmounts(_)
SumAmounts(amts) ==
    IF amts = <<>> THEN Dec(0, 0, 0)
    ELSE DecAdd(SumAmounts(SubSeq(amts, 1, Len(amts) - 1)), amts[Len(amts)])

AmountsOf(exps) == [i \in 1..Len(exps) |-> exps[i].amount]

\* the comparison of the month's total of a category with its limit
OverLimit(month_total, limit) ==
    CASE limit.kind = "invalid"                 -> "InvalidOperation"
      [] DecGt(month_total, limit) = "raise" -> "InvalidOperation"
      [] DecGt(month_total, limit) = "true"  -> "warning"
      [] OTHER                               -> "none"

\* _check_budget_warning for an expense of the given month (expense.date[:7])
CheckMonth(cfg, exps, expense, month) ==
    IF month \notin DOMAIN cfg.budgets THEN "none"
    ELSE IF expense.category \notin DOMAIN cfg.budgets[month] THEN "none"
    ELSE OverLimit(SumAmounts(AmountsOf(SelectSeq(exps,
                       LAMBDA e : StartsWith(e.date, month)
                                  /\ e.category = expense.category))),
                   DecimalFromString(cfg.budgets[month][expense.category]))

\* ExpenseManager._check_budget_warning: "none", "warning" (the message is
\* printed) or "InvalidOperation" (the comparison with the limit raised)
CheckBudgetWarning(cfg, exps, expense) ==
    CheckMonth(cfg, exps, expense,
               SubSeq(expense.date, 1,
                      IF Len(expense.date) < 7 THEN Len(expense.date) ELSE 7))

----------------------------------------------------------------------------
(* The calls on ExpenseManager *)

NoStatus == [c \in {} |-> c]

\* a value handed back by get_monthly_report (kind "report") or by
\* _get_budget_status (kind "status"); has_status tells whether the report
\* carries the key "budget_status"
Value(kind, total, categories, exps, has_status, status) ==
    [kind |-> kind, total |-> total, categories |-> categories,
     expenses |-> exps, has_status |-> has_status, budget_status |-> status]

NoValue == Value("none", Dec(0, 0, 0), NoStatus, <<>>, FALSE, NoStatus)

\* the six filters of search_expenses; an empty text is an absent filter
Criteria(keyword, category, start_date, end_date, min_amount, max_amount) ==
    [keyword |-> keyword, category |-> category, start_date |-> start_date,
     end_date |-> end_date, min_amount |-> min_amount, max_amount |-> max_amount]

NoCriteria == Criteria(<<>>, <<>>, <<>>, <<>>, <<>>, <<>>)

NoCall ==
    [op |-> "none", index |-> -1, date |-> <<>>, category |-> <<>>,
     amount |-> DecInvalid, text |-> <<>>, description |-> <<>>,
     month |-> <<>>, criteria |-> NoCriteria, result |-> "none",
     invoked |-> {}, repeated |-> FALSE]

Call(op, index, date, category, amount, description, result) ==
    [NoCall EXCEPT !.op = op, !.index = index, !.date = date,
                   !.category = category, !.amount = amount,
                   !.description = description, !.result = result]

\* 0-based Python index into a list
InRange(index, list) == 0 <= index /\ index < Len(list)

\* list.insert(index, x) in place of list[index] = x
ReplaceAt_Insert(list, index, x) ==
    SubSeq(list, 1, index) \o <<x>> \o SubSeq(list, index + 1, Len(list))

\* list with the element at 0-based index replaced
ReplaceAt(list, index, x) == [list EXCEPT ![index + 1] = x]

\* list.pop() in place of del list[index]
RemoveAt_Pop(list, index) == SubSeq(list, 1, Len(list) - 1)

\* del list[index]
RemoveAt(list, index) ==
    SubSeq(list, 1, index) \o SubSeq(list, index + 2, Len(list))

\* outcome of a call that changes nothing
Unchanged(result) ==
    [result |-> result, expenses |-> expenses, file |-> file, backups |-> backups]

\* backup_data() called before save_expenses(): the copy is of the old file
Appended_BackupFirst(exps, warn) ==
    [result   |-> IF warn = "InvalidOperation" THEN warn ELSE "True",
     expenses |-> exps,
     file     |-> SavedFile(exps),
     backups  |-> IF config.auto_backup
                  THEN BackupData(backups, file, now)
                  ELSE backups]

\* the store add_expense leaves once the expense is appended: saved, backed
\* up when auto_backup is set, and checked against the budget (a check that
\* raises does so after the save)
Appended(exps, warn) ==
    [result   |-> IF warn = "InvalidOperation" THEN warn ELSE "True",
     expenses |-> exps,
     file     |-> SavedFile(exps),
     backups  |-> IF config.auto_backup
                  THEN BackupData(backups, SavedFile(exps), now)
                  ELSE backups]

\* add_expense after its validation: valid is validate_amount's answer
AddValidated(date_ok, valid, expense) ==
    IF ~date_ok THEN Unchanged("False")
    ELSE IF valid # "True" THEN Unchanged(valid)
    ELSE Appended(Append(expenses, expense),
                  CheckBudgetWarning(config, Append(expenses, expense), expense))

\* ExpenseManager.add_expense(date_str, category, amount, description):
\* the value returned (or the exception raised) and the store it leaves
AddResult(date_str, category, amount, description) ==
    AddValidated(validate_date(config, date_str),
                 validate_amount(DecimalToString(amount)),
                 Expense(date_str, Strip(Lower(category)), amount, Strip(description)))

\* the store a call leaves once it has set self.expenses to exps and saved
Saved(exps) ==
    [result |-> "True", expenses |-> exps, file |-> SavedFile(exps),
     backups |-> backups]

\* edit_expense after its validation: valid is validate_amount's answer
EditValidated(index, date_ok, valid, expense) ==
    IF ~InRange(index, expenses) THEN Unchanged("False")
    ELSE IF ~date_ok THEN Unchanged("False")
    ELSE IF valid # "True" THEN Unchanged(valid)
    ELSE Saved(ReplaceAt(expenses, index, expense))

\* ExpenseManager.edit_expense(index, date_str, category, amount, description)
EditResult(index, date_str, category, amount, description) ==
    EditValidated(index, validate_date(config, date_str),
                  validate_amount(DecimalToString(amount)),
                  Expense(date_str, Strip(Lower(category)), amount, Strip(description)))

\* delete_expense without the call of save_expenses
DeleteResult_NoSave(index) ==
    IF InRange(index, expenses)
    THEN [result |-> "True", expenses |-> RemoveAt(expenses, index),
          file |-> file, backups |-> backups]
    ELSE Unchanged("False")

\* ExpenseManager.delete_expense(index)
DeleteResult(index) ==
    IF InRange(index, expenses)
    THEN Saved(RemoveAt(expenses, index))
    ELSE Unchanged("False")

\* the store after a call with outcome r
Leaves(r) ==
    /\ expenses' = r.expenses
    /\ file' = r.file
    /\ backups' = r.backups
    /\ UNCHANGED <<config, config_file, now, stack, ret>>

\* a call on the manager ends with outcome r: its result is recorded
Returns(call, r) ==
    /\ last' = [call EXCEPT !.result = r.result]
    /\ Leaves(r)

add_expense(date_str, category, amount, description) ==
    /\ stack = <<>>
    /\ Len(expenses) < MaxLen
    /\ Returns(Call("add_expense", -1, date_str, category, amount, description, "none"),
               AddResult(date_str, category, amount, description))

edit_expense(index, date_str, category, amount, description) ==
    /\ stack = <<>>
    /\ Returns(Call("edit_expense", index, date_str, category, amount, description, "none"),
               EditResult(index, date_str, category, amount, description))

delete_expense(index) ==
    /\ stack = <<>>
    /\ Returns(Call("delete_expense", index, <<>>, <<>>, DecInvalid, <<>>, "none"),
               DeleteResult(index))

\* the clock moves on to a later second
Tick ==
    /\ stack = <<>>
    /\ \E t \in Seconds : t > now /\ now' = t
    /\ UNCHANGED <<expenses, file, backups, config, config_file, last, stack, ret>>

----------------------------------------------------------------------------
(* Inputs *)

D_May01    == <<"2", "0", "2", "4", "-", "0", "5", "-", "0", "1">>
D_Jun15    == <<"2", "0", "2", "4", "-", "0", "6", "-", "1", "5">>
D_Feb30    == <<"2", "0", "2", "4", "-", "0", "2", "-", "3", "0">>
D_Slashes  == <<"0", "1", "/", "0", "5", "/", "2", "0", "2", "4">>

C_Food     == <<" ", "F", "o", "o", "d">>
C_Rent     == <<"r", "e", "n", "t">>

T_Lunch    == <<"L", "u", "n", "c", "h", " ">>
T_Empty    == <<>>

\* dates that strptime rejects
BadDates == {D_Feb30, D_Slashes}

\* 10.00, 5.5, 0.00, -1.00 and NaN
A_10_00    == Dec(0, 1000, -2)
A_5_5      == Dec(0, 55, -1)
A_0_00     == Dec(0, 0, -2)
A_Neg1_00  == Dec(1, 100, -2)

IndexInputs == -1..MaxLen

----------------------------------------------------------------------------
(* The store with the default configuration: every successful add is backed up *)

\* DEFAULT_CATEGORIES, in the order of the source
DEFAULT_CATEGORIES ==
    <<<<"f", "o", "o", "d">>,
      <<"t", "r", "a", "n", "s", "p", "o", "r", "t">>,
      <<"b", "i", "l", "l", "s">>,
      <<"e", "n", "t", "e", "r", "t", "a", "i", "n", "m", "e", "n", "t">>,
      <<"s", "h", "o", "p", "p", "i", "n", "g">>,
      <<"h", "e", "a", "l", "t", "h", "c", "a", "r", "e">>,
      <<"e", "d", "u", "c", "a", "t", "i", "o", "n">>,
      <<"t", "r", "a", "v", "e", "l">>,
      <<"r", "e", "n", "t">>,
      <<"u", "t", "i", "l", "i", "t", "i", "e", "s">>,
      <<"o", "t", "h", "e", "r">>>>

\* default_config of _create_config_file
DefaultConfig ==
    [currency |-> "Rs.", date_format |-> "%Y-%m-%d",
     categories |-> DEFAULT_CATEGORIES, budgets |-> NoBudgets,
     auto_backup |-> TRUE, backup_frequency |-> 7]

\* json.dump(self.config, file): the document has the keys of the dict, a
\* bool written as the literal true or false, a str as a string, a dict as
\* an object of its keys
JsonDump(cfg) ==
    [currency    |-> cfg.currency,
     date_format |-> cfg.date_format,
     categories  |-> cfg.categories,
     budgets     |-> cfg.budgets,
     auto_backup |-> IF cfg.auto_backup THEN "true" ELSE "false",
     backup_frequency |-> cfg.backup_frequency]

\* json.load(file) of a document written by json.dump
JsonLoad(doc) ==
    [currency    |-> doc.currency,
     date_format |-> doc.date_format,
     categories  |-> doc.categories,
     budgets     |-> doc.budgets,
     auto_backup |-> doc.auto_backup = "true",
     backup_frequency |-> doc.backup_frequency]

\* ExpenseManager.__init__ on a fresh data directory
Init ==
    /\ expenses = <<>>
    /\ file = SavedFile(<<>>)
    /\ backups = {}
    /\ config = DefaultConfig
    /\ config_file = JsonDump(config)
    /\ now = 1
    /\ last = NoCall
    /\ stack = <<>>
    /\ ret = NoValue

Dates == {D_May01, D_Feb30, D_Slashes}

Amounts == {A_10_00, A_0_00, A_Neg1_00}

Next ==
    \/ \E d \in Dates, a \in Amounts : add_expense(d, C_Food, a, T_Lunch)
    \/ \E i \in IndexInputs, d \in Dates, a \in Amounts :
          edit_expense(i, d, C_Food, a, T_Lunch)
    \/ \E i \in IndexInputs : delete_expense(i)
    \/ Tick

Spec == Init /\ [][Next]_vars

----------------------------------------------------------------------------
(* The store with auto-backup switched off, over more inputs *)

\* the configuration after Settings > Toggle Auto Backup
InitStore ==
    /\ Init!1 /\ Init!2 /\ Init!3
    /\ config = [DefaultConfig EXCEPT !.auto_backup = FALSE]
    /\ config_file = JsonDump(config)
    /\ now = 1
    /\ last = NoCall
    /\ stack = <<>>
    /\ ret = NoValue

StoreDates == {D_May01, D_Jun15, D_Feb30}

StoreAmounts == {A_10_00, A_5_5, A_0_00, DecNaN}

NextStore ==
    \/ \E d \in StoreDates, a \in StoreAmounts : add_expense(d, C_Food, a, T_Lunch)
    \/ \E i \in IndexInputs, d \in StoreDates, a \in StoreAmounts :
          edit_expense(i, d, C_Food, a, T_Lunch)
    \/ \E i \in IndexInputs : delete_expense(i)

SpecStore == InitStore /\ [][NextStore]_vars

----------------------------------------------------------------------------
(* Claims about the store *)

GoodDates == {D_May01, D_Jun15}

\* a Decimal that is <= 0
NotPositive(a) ==
    \/ a.kind = "finite" /\ (a.sign = 1 \/ a.coef = 0)
    \/ a.kind = "Infinity" /\ a.sign = 1

\* a Decimal that is > 0
Positive(a) ==
    \/ a.kind = "finite" /\ a.sign = 0 /\ a.coef > 0
    \/ a.kind = "Infinity" /\ a.sign = 0

\* C1: an add_expense or edit_expense call whose date does not parse or
\* whose amount is <= 0 returns False and leaves the record sequence, the
\* expenses file and the backup files as they were.
C1_RejectedCallChangesNothing ==
    [][(/\ last'.op \in {"add_expense", "edit_expense"}
        /\ (last'.date \in BadDates \/ NotPositive(last'.amount)))
       => (/\ last'.result = "False"
           /\ expenses' = expenses
           /\ file' = file
           /\ backups' = backups)]_vars

\* a zero-amount edit of an existing record was rejected while backups exist
C1_Witness ==
    /\ last.op = "edit_expense"
    /\ InRange(last.index, expenses)
    /\ last.date = D_May01
    /\ last.amount = A_0_00
    /\ last.result = "False"
    /\ backups # {}

\* C3: between calls the records read from the expenses file, in file
\* order, are the in-memory sequence.
C3_FileAgreesWithMemory ==
    /\ BadRows(file) = {}
    /\ LoadedExpenses(file) = expenses

\* a delete that left a record behind was persisted
C3_Witness ==
    /\ last.op = "delete_expense"
    /\ last.result = "True"
    /\ Len(expenses) >= 1
    /\ Len(file.rows) = Len(expenses)

\* C4: delete_expense(i) with 0 <= i < len returns True, removes the record
\* at i, shifts every later record down by one and keeps every earlier one;
\* any other i returns False and leaves the sequence and the file as they were.
C4_DeleteShiftsDown ==
    [][last'.op = "delete_expense" =>
        LET i == last'.index
        IN  IF 0 <= i /\ i < Len(expenses)
            THEN /\ last'.result = "True"
                 /\ Len(expenses') = Len(expenses) - 1
                 /\ \A j \in 0..(Len(expenses) - 1) :
                       /\ j < i => expenses'[j + 1] = expenses[j + 1]
                       /\ j > i => expenses'[j] = expenses[j + 1]
            ELSE /\ last'.result = "False"
                 /\ expenses' = expenses
                 /\ file' = file]_vars

\* the first of two records was deleted and the second moved to index 0
C4_Witness ==
    /\ last.op = "delete_expense"
    /\ last.index = 0
    /\ last.result = "True"
    /\ Len(expenses) = MaxLen - 1
    /\ Len(expenses) >= 1

\* C6: edit_expense with an index out of bounds returns False and changes
\* nothing; with a valid index and valid input it returns True, puts the new
\* record at that index, keeps the length and every other record, and
\* rewrites the file.
C6_EditReplacesInPlace ==
    [][last'.op = "edit_expense" =>
        LET i == last'.index
        IN  IF ~(0 <= i /\ i < Len(expenses))
            THEN /\ last'.result = "False"
                 /\ expenses' = expenses
                 /\ file' = file
            ELSE (last'.date \in GoodDates /\ Positive(last'.amount)) =>
                 /\ last'.result = "True"
                 /\ Len(expenses') = Len(expenses)
                 /\ \A j \in 0..(Len(expenses) - 1) :
                       j # i => expenses'[j + 1] = expenses[j + 1]
                 /\ expenses'[i + 1].date = last'.date
                 /\ expenses'[i + 1].amount = last'.amount
                 /\ expenses'[i + 1].category = Strip(Lower(last'.category))
                 /\ expenses'[i + 1].description = Strip(last'.description)
                 /\ Len(file'.rows) = Len(expenses')
                 /\ file'.rows[i + 1][3] = DecimalToString(last'.amount)]_vars

\* the second of two records was replaced by a different one
C6_Witness ==
    /\ last.op = "edit_expense"
    /\ last.index = 1
    /\ last.result = "True"
    /\ Len(expenses) = 2
    /\ expenses[1] # expenses[2]

\* C8: every record in the store has amount > 0.
C8_AmountsPositive ==
    \A i \in 1..Len(expenses) : Positive(expenses[i].amount)

\* a zero amount was offered for an existing record of a full store
C8_Witness ==
    /\ last.op = "edit_expense"
    /\ InRange(last.index, expenses)
    /\ last.date \in GoodDates
    /\ last.amount = A_0_00
    /\ Len(expenses) = MaxLen

----------------------------------------------------------------------------
(* Saving and loading any sequence of valid records *)

D_Unpadded == <<"2", "0", "2", "4", "-", "5", "-", "1">>
T_Quoted   == <<"a", ",", " ", "\"", "b", "\"">>

\* 0.10, 2.345 and 1E+2
A_0_10     == Dec(0, 10, -2)
A_2_345    == Dec(0, 2345, -3)
A_1E2      == Dec(0, 1, 2)

\* the records add_expense accepts over these inputs, as it stores them
ValidRecords ==
    {Expense(d, Strip(Lower(C_Food)), a, Strip(t)) :
        d \in {x \in {D_May01, D_Unpadded, D_Feb30} : validate_date(DefaultConfig, x)},
        a \in {x \in {A_10_00, A_5_5, A_0_10, A_2_345, A_1E2, A_0_00} :
                  validate_amount(DecimalToString(x)) = "True"},
        t \in {T_Empty, T_Quoted}}

RecordSeqs == UNION {[1..n -> ValidRecords] : n \in 0..MaxLen}

\* the manager holds a sequence of valid records that is not yet written
InitRoundTrip ==
    /\ expenses \in RecordSeqs
    /\ file = SavedFile(<<>>)
    /\ backups = {}
    /\ config = DefaultConfig
    /\ config_file = JsonDump(config)
    /\ now = 1
    /\ last = NoCall
    /\ stack = <<>>
    /\ ret = NoValue

\* ExpenseManager.save_expenses
save_expenses ==
    /\ file' = SavedFile(expenses)
    /\ last' = [NoCall EXCEPT !.op = "save_expenses", !.result = "None"]
    /\ UNCHANGED <<expenses, backups, config, config_file, now, stack, ret>>

\* ExpenseManager.load_expenses
load_expenses ==
    /\ expenses' = LoadedExpenses(file)
    /\ last' = [NoCall EXCEPT !.op = "load_expenses",
                              !.result = IF BadRows(file) = {} THEN "None"
                                         ELSE "InvalidOperation"]
    /\ UNCHANGED <<file, backups, config, config_file, now, stack, ret>>

NextRoundTrip == save_expenses \/ load_expenses

SpecRoundTrip == InitRoundTrip /\ [][NextRoundTrip]_vars

\* C7: save_expenses followed by load_expenses yields the sequence that was
\* saved: same length and order, same date, category and description, and
\* the same amount with the same number of fractional digits.
C7_SaveLoadRoundTrip ==
    [][(last.op = "save_expenses" /\ last'.op = "load_expenses")
       => (/\ last'.result = "None"
           /\ Len(expenses') = Len(expenses)
           /\ \A i \in 1..Len(expenses) :
                 /\ expenses'[i].date = expenses[i].date
                 /\ expenses'[i].category = expenses[i].category
                 /\ expenses'[i].description = expenses[i].description
                 /\ expenses'[i].amount = expenses[i].amount)]_vars

\* a full sequence holding 10.00 and a quoted description came back from the file
C7_Witness ==
    /\ last.op = "load_expenses"
    /\ last.result = "None"
    /\ Len(expenses) = MaxLen
    /\ \E i \in 1..Len(expenses) :
          expenses[i].amount = A_10_00 /\ expenses[i].description = T_Quoted
    /\ \E i \in 1..Len(expenses) : expenses[i].date = D_Unpadded

----------------------------------------------------------------------------
(* Monthly report and budget status *)

\* frames Python allows on the call stack before it raises RecursionError
RecursionLimit == 4

Frame(fn, month) == [fn |-> fn, month |-> month, waiting |-> FALSE]

\* [e for e in self.expenses if e.date.startswith(month)]
MonthlyExpenses(exps, month) == SelectSeq(exps, LAMBDA e : StartsWith(e.date, month))

\* the categories dict built by the loop of get_monthly_report: the first
\* expense of a category sets its entry, the later ones are added to it
CategorySums(monthly) ==
    [c \in {monthly[i].category : i \in 1..Len(monthly)} |->
        LET amts == AmountsOf(SelectSeq(monthly, LAMBDA e : e.category = c))
        IN  IF Len(amts) = 1 THEN amts[1] ELSE SumAmounts(amts)]

\* the report of a month without expenses: no "budget_status" key
ZeroReport == Value("report", Dec(0, 0, 0), NoStatus, <<>>, FALSE, NoStatus)

\* the report of a month with expenses, once the budget status is known
Report(exps, month, status) ==
    LET monthly == MonthlyExpenses(exps, month)
    IN  Value("report", SumAmounts(AmountsOf(monthly)), CategorySums(monthly),
              monthly, TRUE, status)

\* a - b on Decimals
DecSub(a, b) == DecAdd(a, [b EXCEPT !.sign = 1 - b.sign])

\* float(spent / limit * 100), kept as the fraction num / den
Percentage(spent, limit) ==
    IF DecGtZero(limit) = "true" /\ limit.kind = "finite" /\ spent.kind = "finite"
    THEN LET e == IF spent.exp < limit.exp THEN spent.exp ELSE limit.exp
         IN  [num |-> 100 * Rescale(spent, e), den |-> Rescale(limit, e)]
    ELSE [num |-> 0, den |-> 1]

\* the budget_status dict built by the loop of _get_budget_status from the
\* report of the month
BudgetStatus(cfg, month, report) ==
    [c \in DOMAIN cfg.budgets[month] |->
        LET limit == DecimalFromString(cfg.budgets[month][c])
            spent == IF c \in DOMAIN report.categories
                     THEN report.categories[c] ELSE Dec(0, 0, 0)
        IN  [limit |-> limit, spent |-> spent, remaining |-> DecSub(limit, spent),
             percentage |-> Percentage(spent, limit)]]

\* some limit makes Decimal(limit_str) or limit > 0 raise InvalidOperation
BudgetStatusRaises(cfg, month) ==
    \E c \in DOMAIN cfg.budgets[month] :
        DecimalFromString(cfg.budgets[month][c]).kind \in {"invalid", "NaN"}

Top == stack[Len(stack)]

\* the running call hands v back to its caller
Return(v) ==
    /\ stack' = SubSeq(stack, 1, Len(stack) - 1)
    /\ ret' = v
    /\ last' = IF Len(stack) = 1 THEN [last EXCEPT !.result = "returned"] ELSE last

\* the running call calls fn(month), or Python raises RecursionError
Invoke(fn, month) ==
    IF Len(stack) >= RecursionLimit
    THEN /\ stack' = <<>>
         /\ ret' = NoValue
         /\ last' = [last EXCEPT !.result = "RecursionError"]
    ELSE /\ stack' = Append([stack EXCEPT ![Len(stack)].waiting = TRUE], Frame(fn, month))
         /\ ret' = NoValue
         /\ last' = last

\* an exception leaves the running call and every caller
Raise(exception) ==
    /\ stack' = <<>>
    /\ ret' = NoValue
    /\ last' = [last EXCEPT !.result = exception]

\* a caller calls ExpenseManager.get_monthly_report(month)
call_get_monthly_report(month) ==
    /\ stack = <<>>
    /\ stack' = <<Frame("get_monthly_report", month)>>
    /\ ret' = NoValue
    /\ last' = [NoCall EXCEPT !.op = "get_monthly_report", !.month = month,
                              !.result = "running"]
    /\ UNCHANGED <<expenses, file, backups, config, config_file, now>>

\* a caller calls ExpenseManager._get_budget_status(month)
call_get_budget_status(month) ==
    /\ stack = <<>>
    /\ stack' = <<Frame("_get_budget_status", month)>>
    /\ ret' = NoValue
    /\ last' = [NoCall EXCEPT !.op = "_get_budget_status", !.month = month,
                              !.result = "running"]
    /\ UNCHANGED <<expenses, file, backups, config, config_file, now>>

\* ExpenseManager.get_monthly_report: up to the call of _get_budget_status,
\* and from its return to the return of the report
get_monthly_report ==
    /\ stack # <<>>
    /\ Top.fn = "get_monthly_report"
    /\ IF ~Top.waiting
       THEN IF MonthlyExpenses(expenses, Top.month) = <<>>
            THEN Return(ZeroReport)
            ELSE Invoke("_get_budget_status", Top.month)
       ELSE Return(Report(expenses, Top.month, ret.budget_status))
    /\ UNCHANGED <<expenses, file, backups, config, config_file, now>>

\* ExpenseManager._get_budget_status: up to the call of get_monthly_report,
\* and from its return to the return of the status
get_budget_status ==
    /\ stack # <<>>
    /\ Top.fn = "_get_budget_status"
    /\ IF ~Top.waiting
       THEN IF Top.month \notin DOMAIN config.budgets
            THEN Return(Value("status", Dec(0, 0, 0), NoStatus, <<>>, FALSE, NoStatus))
            ELSE Invoke("get_monthly_report", Top.month)
       ELSE IF BudgetStatusRaises(config, Top.month)
            THEN Raise("InvalidOperation")
            ELSE Return(Value("status", Dec(0, 0, 0), NoStatus, <<>>, FALSE,
                              BudgetStatus(config, Top.month, ret)))
    /\ UNCHANGED <<expenses, file, backups, config, config_file, now>>

M_May == <<"2", "0", "2", "4", "-", "0", "5">>
M_Jun == <<"2", "0", "2", "4", "-", "0", "6">>
M_Jul == <<"2", "0", "2", "4", "-", "0", "7">>

K_Food == <<"f", "o", "o", "d">>
K_Rent == <<"r", "e", "n", "t">>

L_100 == <<"1", "0", "0">>
L_0   == <<"0">>

Months == {M_May, M_Jun, M_Jul}

\* the records add_expense stores for two dates, two categories, two amounts
ReportRecords ==
    {Expense(d, Strip(Lower(c)), a, Strip(T_Lunch)) :
        d \in {D_May01, D_Jun15}, c \in {C_Food, C_Rent}, a \in {A_10_00, A_5_5}}

\* budgets set_budget leaves in the configuration
BudgetInputs ==
    {NoBudgets,
     [m \in {M_May} |-> [c \in {K_Food} |-> L_100]],
     [m \in {M_May, M_Jul} |-> [c \in {K_Food, K_Rent} |-> IF c = K_Food THEN L_100 ELSE L_0]],
     [m \in {M_Jun} |-> [c \in {K_Rent} |-> L_100]]}

\* a store of valid records and a configuration with budgets
InitReport ==
    /\ expenses \in UNION {[1..n -> ReportRecords] : n \in 0..MaxLen}
    /\ file = SavedFile(expenses)
    /\ backups = {}
    /\ config \in {[DefaultConfig EXCEPT !.budgets = b] : b \in BudgetInputs}
    /\ config_file = JsonDump(config)
    /\ now = 1
    /\ last = NoCall
    /\ stack = <<>>
    /\ ret = NoValue

NextReport ==
    \/ \E m \in Months : call_get_monthly_report(m)
    \/ \E m \in Months : call_get_budget_status(m)
    \/ get_monthly_report
    \/ get_budget_status

SpecReport == InitReport /\ [][NextReport]_vars

----------------------------------------------------------------------------
(* Claims about the monthly report *)

\* a finite amount in hundredths
Cents(a) == IF a.sign = 1 THEN 0 - Rescale(a, -2) ELSE Rescale(a, -2)

RECURSIVE SumCents(_)
SumCents(exps) ==
    IF exps = <<>> THEN 0 ELSE Cents(Head(exps).amount) + SumCents(Tail(exps))

\* C2: every call of get_monthly_report(month) and of
\* _get_budget_status(month) terminates and returns a result, in every store
\* and configuration, in particular when the month has a matching record
\* and a budget.
C2_ReportCallsReturn ==
    (stack = <<>> /\ last.op \in {"get_monthly_report", "_get_budget_status"})
        => last.result = "returned"

\* C10: get_monthly_report(month) returns a report that selects exactly the
\* records whose date starts with month, whose total is the sum of their
\* amounts and whose category map gives the sum per category of the
\* selected records; the category sums add up to the total.
C10_MonthlyAggregation ==
    (stack = <<>> /\ last.op = "get_monthly_report") =>
        LET selected == SelectSeq(expenses, LAMBDA e :
                            /\ Len(e.date) >= Len(last.month)
                            /\ \A i \in 1..Len(last.month) : e.date[i] = last.month[i])
            cats     == {selected[i].category : i \in 1..Len(selected)}
        IN  /\ last.result = "returned"
            /\ ret.kind = "report"
            /\ ret.expenses = selected
            /\ Cents(ret.total) = SumCents(selected)
            /\ DOMAIN ret.categories = cats
            /\ \A c \in cats :
                  Cents(ret.categories[c]) =
                      SumCents(SelectSeq(selected, LAMBDA e : e.category = c))

----------------------------------------------------------------------------
(* The add and edit handlers of ExpenseUI *)

\* ExpenseUI.get_input: the stripped answer, or the default when it is empty
get_input(answer, default) ==
    IF Strip(answer) = <<>> THEN default ELSE Strip(answer)

\* int(text) of a stripped text t whose digits are u
SignedInt(t, u) ==
    IF Len(u) >= 1 /\ AllDigits(u)
    THEN [ok |-> TRUE,
          value |-> IF t[1] = "-" THEN 0 - StrToNat(u) ELSE StrToNat(u)]
    ELSE [ok |-> FALSE, value |-> 0]

\* int(text) of a stripped text t
StrippedInt(t) ==
    SignedInt(t, IF Len(t) >= 1 /\ t[1] \in {"-", "+"} THEN Tail(t) ELSE t)

\* int(text): ok is FALSE when it raises ValueError
PyInt(text) == StrippedInt(Strip(text))

\* date.today().strftime(config['date_format'])
Today == D_Jun15

UiCall(op, index, date, category, text, amount, description, result) ==
    [Call(op, index, date, category, amount, description, result) EXCEPT !.text = text]

\* the message a handler prints for the outcome of the manager's call; an
\* exception is not caught by the handler and reaches ExpenseUI.run
Message(r, success, failure) ==
    CASE r.result = "True"  -> success
      [] r.result = "False" -> failure
      [] OTHER              -> r.result

\* a handler returns after printing a message, the store untouched
Shows(call, message) ==
    /\ last' = [call EXCEPT !.result = message]
    /\ Leaves(Unchanged("None"))

\* a handler returns after the manager's call with outcome r
Finishes(call, r, success, failure) ==
    /\ last' = [call EXCEPT !.result = Message(r, success, failure)]
    /\ Leaves(r)

\* ExpenseUI.add_expense from the quantize on: amount is its value
AddQuantized(call, amount) ==
    IF amount.kind = "invalid" THEN Shows(call, "InvalidOperation")
    ELSE Finishes([call EXCEPT !.amount = amount],
                  AddResult(call.date, call.category, amount, call.description),
                  "Expense added successfully!", "Failed to add expense.")

\* ExpenseUI.add_expense after its prompts: call holds the inputs, valid is
\* validate_amount's answer for the amount entered
AddChecked(call, valid) ==
    IF ~validate_date(config, call.date)
    THEN Shows(call, "Invalid date format. Please use YYYY-MM-DD.")
    ELSE IF call.category = <<>> THEN Shows(call, "Category cannot be empty.")
    ELSE IF valid = "InvalidOperation" THEN Shows(call, "InvalidOperation")
    ELSE IF valid = "False"
    THEN Shows(call, "Invalid amount. Please enter a positive number.")
    ELSE AddQuantized(call, Quantize2(DecimalFromString(call.text)))

\* ExpenseUI.add_expense, with the user's answers to its four prompts
ui_add_expense(date_answer, category_answer, amount_answer, description_answer) ==
    /\ stack = <<>>
    /\ Len(expenses) < MaxLen
    /\ AddChecked(UiCall("ui_add_expense", -1,
                         get_input(date_answer, Today),
                         Strip(Lower(get_input(category_answer, <<>>))),
                         get_input(amount_answer, <<>>),
                         DecInvalid,
                         get_input(description_answer, <<>>),
                         "none"),
                  validate_amount(get_input(amount_answer, <<>>)))

\* ExpenseUI.edit_expense from the quantize on: amount is its value
EditQuantized(call, amount) ==
    IF amount.kind = "invalid" THEN Shows(call, "InvalidOperation")
    ELSE Finishes([call EXCEPT !.amount = amount],
                  EditResult(call.index, call.date, call.category, amount,
                             call.description),
                  "Expense updated successfully!", "Failed to update expense.")

\* ExpenseUI.edit_expense after its prompts: call holds the inputs, valid is
\* validate_amount's answer for the amount
EditChecked(call, valid) ==
    IF ~validate_date(config, call.date)
    THEN Shows(call, "Invalid date or amount format.")
    ELSE IF valid = "InvalidOperation" THEN Shows(call, "InvalidOperation")
    ELSE IF valid = "False" THEN Shows(call, "Invalid date or amount format.")
    ELSE EditQuantized(call, Quantize2(DecimalFromString(call.text)))

\* ExpenseUI.edit_expense for the record current at index: an empty answer
\* keeps the record's value
EditCurrent(index, current, date_answer, category_answer, amount_answer, description_answer) ==
    EditChecked(UiCall("ui_edit_expense", index,
                       get_input(date_answer, current.date),
                       get_input(category_answer, current.category),
                       get_input(amount_answer, DecimalToString(current.amount)),
                       DecInvalid,
                       get_input(description_answer, current.description),
                       "none"),
                validate_amount(get_input(amount_answer,
                                          DecimalToString(current.amount))))

\* ExpenseUI.edit_expense once the expense number is read
EditNumbered(number, date_answer, category_answer, amount_answer, description_answer) ==
    IF ~number.ok
    THEN Shows(UiCall("ui_edit_expense", -1, <<>>, <<>>, <<>>, DecInvalid, <<>>, "none"),
               "Invalid input.")
    ELSE IF ~InRange(number.value - 1, expenses)
    THEN Shows(UiCall("ui_edit_expense", -1, <<>>, <<>>, <<>>, DecInvalid, <<>>, "none"),
               "Invalid expense number.")
    ELSE EditCurrent(number.value - 1, expenses[number.value],
                     date_answer, category_answer, amount_answer, description_answer)

\* ExpenseUI.edit_expense, with the user's answers to its five prompts
ui_edit_expense(number_answer, date_answer, category_answer, amount_answer, description_answer) ==
    /\ stack = <<>>
    /\ IF expenses = <<>>
       THEN Shows(UiCall("ui_edit_expense", -1, <<>>, <<>>, <<>>, DecInvalid, <<>>, "none"),
                  "No expenses found to edit.")
       ELSE EditNumbered(PyInt(number_answer), date_answer, category_answer,
                         amount_answer, description_answer)

\* a caller calls ExpenseManager.validate_amount(amount_str)
call_validate_amount(amount_str) ==
    /\ stack = <<>>
    /\ last' = [NoCall EXCEPT !.op = "validate_amount", !.text = amount_str,
                              !.result = validate_amount(amount_str)]
    /\ UNCHANGED <<expenses, file, backups, config, config_file, now, stack, ret>>

X_2_345 == <<"2", ".", "3", "4", "5">>
X_0_005 == <<"0", ".", "0", "0", "5">>
X_10    == <<"1", "0">>
X_0     == <<"0">>
X_abc   == <<"a", "b", "c">>
X_nan   == <<"n", "a", "n">>

N_1 == <<"1">>
N_2 == <<"2">>
N_x == <<"x">>

AmountAnswers == {X_2_345, X_0_005, X_10, X_0, X_abc, T_Empty}

NumberAnswers == {N_1, N_2, N_x}

DateAnswers == {D_May01, D_Feb30, T_Empty}

ManagerAmounts == {A_10_00, DecNaN}

NextUI ==
    \/ \E d \in DateAnswers, x \in AmountAnswers : ui_add_expense(d, C_Food, x, T_Lunch)
    \/ \E n \in NumberAnswers, d \in DateAnswers, x \in AmountAnswers :
          ui_edit_expense(n, d, T_Empty, x, T_Lunch)
    \/ \E x \in AmountAnswers \cup {X_nan} : call_validate_amount(x)
    \/ \E a \in ManagerAmounts : add_expense(D_May01, C_Food, a, T_Lunch)
    \/ \E i \in {0, 1}, a \in ManagerAmounts : edit_expense(i, D_May01, C_Food, a, T_Lunch)

SpecUI == InitStore /\ [][NextUI]_vars

----------------------------------------------------------------------------
(* Claims about the amount a user enters *)

\* text that Decimal() does not accept, or that it reads as a not-a-number
NonNumericText(text) ==
    DecimalFromString(text).kind \in {"invalid", "NaN"}

\* the calls whose amount was not a number
NonNumericCall ==
    \/ last.op \in {"validate_amount", "ui_add_expense", "ui_edit_expense"}
       /\ NonNumericText(last.text)
       /\ last.result \notin {"Invalid date format. Please use YYYY-MM-DD.",
                              "No expenses found to edit.", "Invalid input.",
                              "Invalid expense number.", "Category cannot be empty."}
    \/ last.op \in {"add_expense", "edit_expense"} /\ last.amount.kind = "NaN"

\* C5: validate_amount, add_expense and edit_expense answer a non-numeric
\* amount with False (the handlers with their message for it); none of them
\* raises an exception to its caller
C5_NonNumericAmountIsFalse ==
    NonNumericCall =>
        /\ last.result # "InvalidOperation"
        /\ last.op \in {"validate_amount", "add_expense", "edit_expense"}
              => last.result = "False"

\* d rounded to two fractional digits, a tie going away from zero
RoundHalfUp2(d) ==
    IF d.exp >= -2 THEN Dec(d.sign, d.coef * Pow10(d.exp + 2), -2)
    ELSE LET p == Pow10(-2 - d.exp)
             q == d.coef \div p
             r == d.coef % p
         IN  Dec(d.sign, IF 2 * r >= p THEN q + 1 ELSE q, -2)

\* the record a handler's accepted call has stored
StoredByHandler ==
    IF last.op = "ui_add_expense" THEN expenses[Len(expenses)]
    ELSE expenses[last.index + 1]

\* C9: the amount a user enters on the add or the edit path is stored with
\* exactly two fractional digits, rounded half-up from the text entered
C9_StoredRoundedHalfUp ==
    (/\ last.op \in {"ui_add_expense", "ui_edit_expense"}
     /\ last.result \in {"Expense added successfully!", "Expense updated successfully!"})
        => /\ StoredByHandler.amount.exp = -2
           /\ StoredByHandler.amount = RoundHalfUp2(DecimalFromString(last.text))

----------------------------------------------------------------------------
(* Claims about the budget status *)

\* the entry s of a budget status states the budget math for a limit and a
\* month's spending given in hundredths
BudgetMath(s, limit_cents, spent_cents) ==
    /\ Cents(s.limit) = limit_cents
    /\ Cents(s.spent) = spent_cents
    /\ Cents(s.remaining) = limit_cents - spent_cents
    /\ IF limit_cents = 0 THEN s.percentage.num = 0
       ELSE s.percentage.num * limit_cents = 100 * spent_cents * s.percentage.den

\* what the month's records of a category add up to, in hundredths
SpentCents(exps, month, category) ==
    SumCents(SelectSeq(exps, LAMBDA e : StartsWith(e.date, month)
                                        /\ e.category = category))

\* C11: _get_budget_status(month) of a budgeted month returns, for every
\* category budgeted in the month, spent = the month's sum of the category
\* (0 without expenses), remaining = limit - spent and percentage =
\* spent / limit * 100, taken as 0 when the limit is 0.
C11_BudgetMath ==
    (/\ stack = <<>>
     /\ last.op = "_get_budget_status"
     /\ last.month \in DOMAIN config.budgets)
        => /\ last.result = "returned"
           /\ ret.kind = "status"
           /\ DOMAIN ret.budget_status = DOMAIN config.budgets[last.month]
           /\ \A c \in DOMAIN config.budgets[last.month] :
                 BudgetMath(ret.budget_status[c],
                            Cents(DecimalFromString(config.budgets[last.month][c])),
                            SpentCents(expenses, last.month, c))

----------------------------------------------------------------------------
(* Searching: ExpenseManager.search_expenses *)

\* the characters of the texts, in code point order
CodeOrder ==
    <<"\t", "\n", "\r", " ", "\"", "+", ",", "-", ".", "/",
      "0", "1", "2", "3", "4", "5", "6", "7", "8", "9">>
    \o UpperChars \o <<"_">> \o LowerChars

Ord(c) == CHOOSE i \in 1..Len(CodeOrder) : CodeOrder[i] = c

\* a < b on str: the first place where they differ decides, a proper prefix
\* is smaller
StrLt(a, b) ==
    \E k \in 1..Len(b) :
        /\ \A i \in 1..(k - 1) : i <= Len(a) /\ a[i] = b[i]
        /\ Len(a) >= k - 1
        /\ (Len(a) = k - 1 \/ Ord(a[k]) < Ord(b[k]))

\* a <= b on str
StrLe(a, b) == a = b \/ StrLt(a, b)

\* sub in s on str
Contains(s, sub) ==
    \E k \in 0..(Len(s) - Len(sub)) : SubSeq(s, k + 1, k + Len(sub)) = sub

\* a >= b on finite Decimals
DecGe(a, b) == DecGt(b, a) = "false"

\* if keyword: keep the records whose description or category contains it
ByKeyword(list, keyword) ==
    IF keyword = <<>> THEN list
    ELSE SelectSeq(list, LAMBDA e : \/ Contains(Lower(e.description), Lower(keyword))
                                    \/ Contains(Lower(e.category), Lower(keyword)))

\* if category: keep the records of that category, case ignored
ByCategory(list, category) ==
    IF category = <<>> THEN list
    ELSE SelectSeq(list, LAMBDA e : Lower(e.category) = Lower(category))

\* if start_date: keep e.date >= start_date
FromDate(list, start_date) ==
    IF start_date = <<>> THEN list
    ELSE SelectSeq(list, LAMBDA e : StrLe(start_date, e.date))

\* the end_date filter applied to the whole store, not to the list
\* filtered so far
ToDate_OfStore(list, end_date) ==
    IF end_date = <<>> THEN list
    ELSE SelectSeq(expenses, LAMBDA e : StrLe(e.date, end_date))

\* if end_date: keep e.date <= end_date
ToDate(list, end_date) ==
    IF end_date = <<>> THEN list
    ELSE SelectSeq(list, LAMBDA e : StrLe(e.date, end_date))

\* Decimal(text) raises, or the comparison of a record's amount with a
\* not-a-number does
AmountRaises(list, text) ==
    /\ text # <<>>
    /\ \/ DecimalFromString(text).kind = "invalid"
       \/ DecimalFromString(text).kind = "NaN" /\ list # <<>>

\* if min_amount: keep e.amount >= Decimal(min_amount)
MinAmount(list, min_amount) ==
    IF min_amount = <<>> THEN list
    ELSE SelectSeq(list, LAMBDA e : DecGe(e.amount, DecimalFromString(min_amount)))

\* if max_amount: keep e.amount <= Decimal(max_amount)
MaxAmount(list, max_amount) ==
    IF max_amount = <<>> THEN list
    ELSE SelectSeq(list, LAMBDA e : DecGe(DecimalFromString(max_amount), e.amount))

\* a list handed back, or the exception raised
Found(list) == [result |-> "returned", list |-> list]

NotFound(exception) == [result |-> exception, list |-> <<>>]

\* search_expenses from the max_amount filter on
SearchMax(list, c) ==
    IF AmountRaises(list, c.max_amount) THEN NotFound("InvalidOperation")
    ELSE Found(MaxAmount(list, c.max_amount))

\* search_expenses from the min_amount filter on
SearchMin(list, c) ==
    IF AmountRaises(list, c.min_amount) THEN NotFound("InvalidOperation")
    ELSE SearchMax(MinAmount(list, c.min_amount), c)

\* ExpenseManager.search_expenses on the list exps with the filters c
SearchResult(exps, c) ==
    SearchMin(ToDate(FromDate(ByCategory(ByKeyword(exps, c.keyword), c.category),
                              c.start_date),
                     c.end_date),
              c)

\* the call ends with outcome r
Searched(c, r) ==
    /\ last' = [NoCall EXCEPT !.op = "search_expenses", !.criteria = c,
                              !.result = r.result]
    /\ ret' = Value("list", Dec(0, 0, 0), NoStatus, r.list, FALSE, NoStatus)
    /\ UNCHANGED <<expenses, file, backups, config, config_file, now, stack>>

\* a caller calls ExpenseManager.search_expenses with the filters c
search_expenses(c) ==
    /\ stack = <<>>
    /\ Searched(c, SearchResult(expenses, c))

Q_UN      == <<"U", "N">>
Q_FOOD    == <<"F", "O", "O", "D">>
Q_6       == <<"6">>
D_May15   == <<"2", "0", "2", "4", "-", "0", "5", "-", "1", "5">>
D_Jun30   == <<"2", "0", "2", "4", "-", "0", "6", "-", "3", "0">>

\* the filters a caller passes
SearchInputs ==
    {Criteria(k, c, s, e, mn, mx) :
        k \in {T_Empty, Q_UN}, c \in {T_Empty, Q_FOOD},
        s \in {T_Empty, D_May15}, e \in {T_Empty, D_Jun30},
        mn \in {T_Empty, Q_6, X_abc}, mx \in {T_Empty, X_10}}

\* the add_expense calls that fill the store: date, category, amount,
\* description
AddInputs ==
    {<<D_Jun15, C_Food, A_10_00, T_Lunch>>, <<D_May01, C_Rent, A_5_5, T_Empty>>,
     <<D_Unpadded, C_Food, A_5_5, T_Empty>>, <<D_May01, C_Food, A_10_00, T_Lunch>>,
     <<D_Feb30, C_Food, A_10_00, T_Empty>>}

NextSearch ==
    \/ \E a \in AddInputs : add_expense(a[1], a[2], a[3], a[4])
    \/ \E c \in SearchInputs : search_expenses(c)

SpecSearch == InitStore /\ [][NextSearch]_vars

----------------------------------------------------------------------------
(* Claims about searching *)

\* the filters c with every filter but the one named k absent
Only(c, k) == [f \in DOMAIN c |-> IF f = k THEN c[f] ELSE <<>>]

InList(e, list) == \E i \in 1..Len(list) : list[i] = e

\* an amount filter is absent or a number
NumberOrAbsent(text) == text = <<>> \/ DecimalFromString(text).kind = "finite"

\* C12: search_expenses returns exactly the records of the store, in store
\* order, that each present filter alone would keep; absent filters narrow
\* nothing; the store and the file are not modified.
C12_FilterConjunction ==
    /\ []((/\ last.op = "search_expenses"
           /\ NumberOrAbsent(last.criteria.min_amount)
           /\ NumberOrAbsent(last.criteria.max_amount))
          => (/\ last.result = "returned"
              /\ ret.expenses =
                    SelectSeq(expenses, LAMBDA e :
                        \A k \in DOMAIN NoCriteria :
                            InList(e, SearchResult(expenses,
                                                   Only(last.criteria, k)).list))))
    /\ [][last'.op = "search_expenses" => expenses' = expenses /\ file' = file]_vars

\* a search with four filters present kept one of two records
C12_Witness ==
    /\ last.op = "search_expenses"
    /\ last.criteria.keyword # <<>> /\ last.criteria.category # <<>>
    /\ last.criteria.start_date # <<>> /\ last.criteria.min_amount = Q_6
    /\ last.criteria.end_date = <<>>
    /\ last.result = "returned"
    /\ Len(expenses) = 2
    /\ Len(ret.expenses) = 1

\* the calendar day of a date text that strptime accepts, as yyyymmdd
DayNumber(s, dash) ==
    StrToNat(SubSeq(s, 1, 4)) * 10000
    + StrToNat(SubSeq(s, 6, dash - 1)) * 100
    + StrToNat(Strip(SubSeq(s, dash + 1, Len(s))))

CalendarDay(s) == DayNumber(s, CHOOSE i \in 6..Len(s) : s[i] = "-")

\* C13: for every record that add_expense accepted, search_expenses with a
\* start_date and/or an end_date (and no other filter) keeps the record
\* exactly when its calendar date lies in the inclusive range.
C13_DateBoundsAreCalendarBounds ==
    (/\ last.op = "search_expenses"
     /\ last.criteria.keyword = <<>> /\ last.criteria.category = <<>>
     /\ last.criteria.min_amount = <<>> /\ last.criteria.max_amount = <<>>)
        => ret.expenses =
              SelectSeq(expenses, LAMBDA e :
                  /\ \/ last.criteria.start_date = <<>>
                     \/ CalendarDay(last.criteria.start_date) <= CalendarDay(e.date)
                  /\ \/ last.criteria.end_date = <<>>
                     \/ CalendarDay(e.date) <= CalendarDay(last.criteria.end_date))

----------------------------------------------------------------------------
(* Manual backups: ExpenseManager.backup_data called on demand *)

\* the last second of the clock of the backup runs
LastSecond == 12

\* ExpenseManager.backup_data(): the record of the call carries the seconds
\* at which the run of backup_data calls it ends were made, and whether two
\* of them fell into the same second
backup_data ==
    /\ stack = <<>>
    /\ backups' = BackupData(backups, file, now)
    /\ last' = [NoCall EXCEPT !.op = "backup_data", !.result = "None",
                              !.invoked = last.invoked \cup {now},
                              !.repeated = last.repeated \/ now \in last.invoked]
    /\ UNCHANGED <<expenses, file, config, config_file, now, stack, ret>>

\* datetime.now() moves on to a later second
Later ==
    /\ stack = <<>>
    /\ \E t \in 1..LastSecond : t > now /\ now' = t
    /\ UNCHANGED <<expenses, file, backups, config, config_file, last, stack, ret>>

NextBackup ==
    \/ backup_data
    \/ Later

SpecBackup == InitStore /\ [][NextBackup]_vars

\* the names of the backup files
BackupNames == {b.name : b \in backups}

\* the k latest of a set of seconds
Latest(seconds, k) == {t \in seconds : Cardinality({u \in seconds : u > t}) < k}

\* C14: after n calls of backup_data made at distinct seconds the backup
\* directory holds min(n, 10) files, and they are the ones of the latest
\* calls
C14_BackupRetention ==
    (last.op = "backup_data" /\ ~last.repeated)
        => /\ Cardinality(backups) <= 10
           /\ Cardinality(backups) = (IF Cardinality(last.invoked) < 10 THEN Cardinality(last.invoked) ELSE 10)
           /\ BackupNames = Latest(last.invoked, 10)
           /\ \A b \in backups : b.content = file

\* twelve calls at twelve seconds have been made and ten backups remain
C14_Witness ==
    /\ last.op = "backup_data" /\ ~last.repeated
    /\ Cardinality(last.invoked) = 12
    /\ BackupNames = 3..12

----------------------------------------------------------------------------
(* Budget and settings operations: they write config and save it *)

\* datetime.strptime(month, "%Y-%m") succeeds
StrptimeYm(s) ==
    /\ Len(s) >= 6
    /\ AllDigits(SubSeq(s, 1, 4))
    /\ s[5] = "-"
    /\ MatchMonth(SubSeq(s, 6, Len(s)))
    /\ StrToNat(SubSeq(s, 1, 4)) >= 1

\* config["budgets"][month], or the {} set_budget puts there first
CategoryLimits(budgets, month) ==
    IF month \in DOMAIN budgets THEN budgets[month] ELSE NoBudgets

\* limits[category] = text
WithLimit(limits, category, text) ==
    [c \in DOMAIN limits \cup {category} |-> IF c = category THEN text ELSE limits[c]]

\* budgets[month] = limits
WithMonth(budgets, month, limits) ==
    [m \in DOMAIN budgets \cup {month} |-> IF m = month THEN limits ELSE budgets[m]]

\* config["budgets"][month] = {category: str(limit)}: the month's other
\* categories are dropped
SetBudget_Replaced(cfg, month, category, limit) ==
    [cfg EXCEPT !.budgets = WithMonth(cfg.budgets, month,
                                WithLimit(NoBudgets, category, DecimalToString(limit)))]

\* self.config after config["budgets"][month][category] = str(limit)
SetBudget(cfg, month, category, limit) ==
    [cfg EXCEPT !.budgets = WithMonth(cfg.budgets, month,
                                WithLimit(CategoryLimits(cfg.budgets, month),
                                          category, DecimalToString(limit)))]

\* del limits[category]
WithoutLimit(limits, category) ==
    [c \in DOMAIN limits \ {category} |-> limits[c]]

\* del budgets[month]
WithoutMonth(budgets, month) ==
    [m \in DOMAIN budgets \ {month} |-> budgets[m]]

\* the budgets once the month has the limits rest: an empty month is deleted
Pruned(budgets, month, rest) ==
    IF DOMAIN rest = {} THEN WithoutMonth(budgets, month)
    ELSE WithMonth(budgets, month, rest)

\* the month is kept although no category is left in it
DeleteBudget_KeepMonth(cfg, month, category) ==
    [cfg EXCEPT !.budgets = WithMonth(cfg.budgets, month,
                                WithoutLimit(cfg.budgets[month], category))]

\* self.config after the delete branch of ExpenseUI.manage_budgets
DeleteBudget(cfg, month, category) ==
    [cfg EXCEPT !.budgets = Pruned(cfg.budgets, month,
                                WithoutLimit(cfg.budgets[month], category))]

BudgetCall(op, month, category, text, limit, result) ==
    [NoCall EXCEPT !.op = op, !.month = month, !.category = category,
                   !.text = text, !.amount = limit, !.result = result]

\* the operation has set self.config to cfg and called save_config()
Configured(call, cfg) ==
    /\ last' = call
    /\ config' = cfg
    /\ config_file' = JsonDump(cfg)
    /\ UNCHANGED <<expenses, file, backups, now, stack, ret>>

\* ExpenseManager.set_budget(month, category, limit)
set_budget(month, category, limit) ==
    /\ stack = <<>>
    /\ Configured(BudgetCall("set_budget", month, category, <<>>, limit, "None"),
                  SetBudget(config, month, category, limit))

\* ExpenseUI.manage_budgets, action "set", from Decimal(limit_str) on: an
\* InvalidOperation is not a ValueError and leaves the handler
SetParsed(call, limit) ==
    IF limit.kind = "invalid" THEN Shows(call, "InvalidOperation")
    ELSE Configured([call EXCEPT !.amount = limit, !.result = "Budget set"],
                    SetBudget(config, call.month, call.category, limit))

\* ExpenseUI.manage_budgets, action "set", after its prompts
SetChecked(call) ==
    IF ~StrptimeYm(call.month) THEN Shows(call, "Invalid month format.")
    ELSE SetParsed(call, DecimalFromString(call.text))

\* ExpenseUI.manage_budgets, action "set", with the user's three answers
ui_set_budget(month_answer, category_answer, limit_answer) ==
    /\ stack = <<>>
    /\ SetChecked(BudgetCall("ui_set_budget",
                             get_input(month_answer, SubSeq(Today, 1, 7)),
                             Strip(Lower(get_input(category_answer, <<>>))),
                             get_input(limit_answer, <<>>),
                             DecInvalid, "none"))

\* ExpenseUI.manage_budgets, action "delete", after its prompts
DeleteChecked(call) ==
    IF /\ call.month \in DOMAIN config.budgets
       /\ call.category \in DOMAIN config.budgets[call.month]
    THEN Configured([call EXCEPT !.result = "Budget deleted"],
                    DeleteBudget(config, call.month, call.category))
    ELSE Shows(call, "Budget not found.")

\* ExpenseUI.manage_budgets, action "delete", with the user's two answers
ui_delete_budget(month_answer, category_answer) ==
    /\ stack = <<>>
    /\ DeleteChecked(BudgetCall("ui_delete_budget",
                                get_input(month_answer, <<>>),
                                Strip(Lower(get_input(category_answer, <<>>))),
                                <<>>, DecInvalid, "none"))

\* ExpenseUI.settings_menu, choice "2": toggle auto backup
toggle_auto_backup ==
    /\ stack = <<>>
    /\ Configured([NoCall EXCEPT !.op = "toggle_auto_backup",
                                 !.result = IF config.auto_backup
                                            THEN "Auto backup disabled"
                                            ELSE "Auto backup enabled"],
                  [config EXCEPT !.auto_backup = ~config.auto_backup])

----------------------------------------------------------------------------
(* The store, the budgets and the auto-backup switch together *)

A_100 == Dec(0, 100, 0)

NextTrigger ==
    \/ \E d \in {D_May01, D_Feb30}, a \in {A_10_00, A_0_00} :
          add_expense(d, C_Food, a, T_Lunch)
    \/ \E i \in {0, 1}, a \in {A_5_5, A_0_00} : edit_expense(i, D_May01, C_Food, a, T_Lunch)
    \/ \E i \in {0, 1} : delete_expense(i)
    \/ \E limit \in {A_100, A_5_5, DecNaN} : set_budget(M_May, K_Food, limit)
    \/ ui_delete_budget(M_May, K_Food)
    \/ toggle_auto_backup
    \/ Tick

SpecTrigger == Init /\ [][NextTrigger]_vars

\* the step is an add_expense that appends a record while auto_backup is on
BackedUpAdd ==
    /\ last'.op = "add_expense"
    /\ Len(expenses') = Len(expenses) + 1
    /\ config.auto_backup

\* the step leaves a backup named by the current second that holds the file
\* as rewritten, the new record in its last row, and touches no backup of
\* another name
NewBackup ==
    /\ [name |-> now, content |-> file'] \in backups'
    /\ file' = SavedFile(expenses')
    /\ file'.rows[Len(file'.rows)] = to_dict(expenses'[Len(expenses')])
    /\ \A b \in backups' : b.name # now => b \in backups
    /\ \A b \in backups : b.name # now => b \in backups'

\* C15: a step creates a backup exactly when it is an add_expense that
\* stores its record while auto_backup is on, and the backup then holds the
\* rewritten file with the new record; edits, deletes, rejected adds and
\* budget operations leave the backups as they are
C15_BackupTrigger ==
    [][IF BackedUpAdd THEN NewBackup ELSE backups' = backups]_vars

\* a backup of an earlier second exists and the add just made is backed up
\* under the current second
C15_Witness ==
    /\ last.op = "add_expense" /\ last.result = "True"
    /\ config.auto_backup
    /\ Len(expenses) = 2
    /\ \E b \in backups : b.name = now /\ b.content = file
    /\ \E b \in backups : b.name < now /\ b.content # file

----------------------------------------------------------------------------
(* The budgets: set and delete through the budget menu, set on the manager *)

M_Bad   == <<"2", "0", "2", "4", "-", "1", "3">>
K_Rent_ == <<" ", "R", "e", "n", "t">>
X_Neg5  == <<"-", "5">>

BudgetMonths == {M_May, M_Jun}

NextBudget ==
    \/ \E mo \in BudgetMonths \cup {M_Bad}, c \in {K_Food, K_Rent_}, x \in {L_100, L_0, X_Neg5, X_abc, X_nan} :
          ui_set_budget(mo, c, x)
    \/ \E mo \in BudgetMonths, c \in {K_Food, K_Rent_} : ui_delete_budget(mo, c)
    \/ \E mo \in BudgetMonths : set_budget(mo, K_Food, A_5_5)

SpecBudget == InitStore /\ [][NextBudget]_vars

\* C16: no month of the budgets has an empty category mapping; a delete of
\* the last budgeted category of a month removes the month, a delete of any
\* other budget removes that category alone, and a delete of a (month,
\* category) that is not budgeted is answered "Budget not found." and leaves
\* the configuration and its file unchanged
C16_NoEmptyMonth ==
    /\ [](\A mo \in DOMAIN config.budgets : DOMAIN config.budgets[mo] # {})
    /\ [][last'.op = "ui_delete_budget"
            => IF /\ last'.month \in DOMAIN config.budgets
                  /\ last'.category \in DOMAIN config.budgets[last'.month]
               THEN /\ last'.result = "Budget deleted"
                    /\ IF DOMAIN config.budgets[last'.month] = {last'.category}
                       THEN last'.month \notin DOMAIN config'.budgets
                       ELSE /\ last'.month \in DOMAIN config'.budgets
                            /\ DOMAIN config'.budgets[last'.month]
                                  = DOMAIN config.budgets[last'.month] \ {last'.category}
               ELSE /\ last'.result = "Budget not found."
                    /\ config' = config
                    /\ config_file' = config_file]_vars

\* the last budget of a month was deleted while another month is budgeted
C16_Witness ==
    /\ last.op = "ui_delete_budget" /\ last.result = "Budget deleted"
    /\ last.month \notin DOMAIN config.budgets
    /\ DOMAIN config.budgets # {}

\* the (month, category) paths of a budgets mapping
Paths(budgets) ==
    {p \in (DOMAIN budgets) \X UNION {DOMAIN budgets[k] : k \in DOMAIN budgets} :
        p[2] \in DOMAIN budgets[p[1]]}

\* C17: set_budget(month, category, limit), called directly or by the
\* budget menu, makes the budgets hold the limit at (month, category), leaves every other budget and every other key of
\* the configuration as it was, and the configuration file read back is the
\* configuration in memory
C17_BudgetUpsert ==
    [][(last'.op = "set_budget" \/ last'.result = "Budget set")
          => /\ <<last'.month, last'.category>> \in Paths(config'.budgets)
             /\ DecimalFromString(config'.budgets[last'.month][last'.category]) = last'.amount
             /\ Paths(config'.budgets) = Paths(config.budgets) \cup {<<last'.month, last'.category>>}
             /\ \A p \in Paths(config.budgets) \ {<<last'.month, last'.category>>} :
                   config'.budgets[p[1]][p[2]] = config.budgets[p[1]][p[2]]
             /\ \A k \in DOMAIN config \ {"budgets"} : config'[k] = config[k]
             /\ DOMAIN config' = DOMAIN config
             /\ JsonLoad(config_file') = config']_vars

\* set_budget has just set a limit in a month that has another category
\* budgeted, while another month is budgeted too
C17_Witness ==
    /\ last.op = "set_budget"
    /\ Cardinality(DOMAIN config.budgets) = 2
    /\ Cardinality(DOMAIN config.budgets[last.month]) = 2

\* the text reads as a finite decimal above zero
PositiveDecimal(text) ==
    /\ DecimalFromString(text).kind = "finite"
    /\ DecimalFromString(text).sign = 0
    /\ DecimalFromString(text).coef > 0

\* C18: every budget limit stored in the configuration is a positive decimal
C18_BudgetLimitsPositive ==
    \A p \in Paths(config.budgets) : PositiveDecimal(config.budgets[p[1]][p[2]])

----------------------------------------------------------------------------
(* Adds and edits with an empty category *)

C_Blank == <<" ", " ">>

NextCategory ==
    \/ \E c \in {C_Food, C_Blank, T_Empty} : ui_add_expense(D_May01, c, X_10, T_Lunch)
    \/ \E n \in {N_1, N_2}, c \in {C_Rent, C_Blank, T_Empty} :
          ui_edit_expense(n, T_Empty, c, T_Empty, T_Empty)
    \/ \E c \in {C_Food, C_Blank, T_Empty} : add_expense(D_May01, c, A_10_00, T_Lunch)
    \/ \E i \in {0, 1}, c \in {C_Rent, C_Blank} : edit_expense(i, D_Jun15, c, A_5_5, T_Lunch)

SpecCategory == InitStore /\ [][NextCategory]_vars

\* the outcomes that tell the caller or the user the record was stored
StoredResults ==
    {"True", "Expense added successfully!", "Expense updated successfully!"}

\* C20: an add or an edit whose category is empty once trimmed ends with a
\* failure result, and no record of the store has an empty category
C20_EmptyCategoryRejected ==
    /\ \A i \in 1..Len(expenses) : Strip(expenses[i].category) # <<>>
    /\ (/\ last.op \in {"add_expense", "edit_expense", "ui_add_expense", "ui_edit_expense"}
        /\ Strip(last.category) = <<>>)
          => last.result \notin StoredResults

----------------------------------------------------------------------------
(* The main loop: ExpenseUI.run *)

\* the store add_expense leaves when open(EXPENSES_FILE, 'w') raises: the
\* expense is appended, nothing is written and no backup is made
Unwritten(exps) ==
    [result |-> "OSError", expenses |-> exps, file |-> file, backups |-> backups]

\* ExpenseManager.add_expense while the expenses file cannot be opened for
\* writing
AddUnwritten(date_str, category, amount, description) ==
    IF ~validate_date(config, date_str) THEN Unchanged("False")
    ELSE IF validate_amount(DecimalToString(amount)) # "True"
    THEN Unchanged(validate_amount(DecimalToString(amount)))
    ELSE Unwritten(Append(expenses, Expense(date_str, Strip(Lower(category)),
                                            amount, Strip(description))))

\* ExpenseUI.add_expense with answers that pass its checks, while the
\* expenses file cannot be opened for writing
ui_add_expense_unwritable(date_answer, category_answer, amount_answer, description_answer) ==
    /\ stack = <<>>
    /\ Len(expenses) < MaxLen
    /\ validate_date(config, get_input(date_answer, Today))
    /\ Strip(Lower(get_input(category_answer, <<>>))) # <<>>
    /\ validate_amount(get_input(amount_answer, <<>>)) = "True"
    /\ Finishes(UiCall("ui_add_expense", -1,
                       get_input(date_answer, Today),
                       Strip(Lower(get_input(category_answer, <<>>))),
                       get_input(amount_answer, <<>>),
                       Quantize2(DecimalFromString(get_input(amount_answer, <<>>))),
                       get_input(description_answer, <<>>),
                       "none"),
                AddUnwritten(get_input(date_answer, Today),
                             Strip(Lower(get_input(category_answer, <<>>))),
                             Quantize2(DecimalFromString(get_input(amount_answer, <<>>))),
                             get_input(description_answer, <<>>)),
                "Expense added successfully!", "Failed to add expense.")

\* the exceptions the handlers let through to run
HandlerExceptions == {"InvalidOperation", "RecursionError", "OSError"}

\* except ValueError in place of except Exception
CaughtByRun_ValueError(result) == FALSE

\* run's "except Exception" catches the exception a handler ended with:
\* decimal.InvalidOperation, RecursionError and OSError all derive from it
CaughtByRun(result) == result \in HandlerExceptions

\* where run stands once the last call has ended: at the menu prompt, at
\* "Press Enter to continue" after an action, at the same prompt of the
\* except branch, or past the loop
RunPosition(call) ==
    CASE call.op \in {"none", "show_menu"}  -> "menu"
      [] call.op = "exit"                   -> "exited"
      [] CaughtByRun(call.result)           -> "error"
      [] call.result \in HandlerExceptions  -> "aborted"
      [] OTHER                              -> "pause"

AtMenu == stack = <<>> /\ RunPosition(last) = "menu"

\* the user answers "Press Enter to continue": the loop shows the menu again
press_enter ==
    /\ stack = <<>>
    /\ RunPosition(last) \in {"pause", "error"}
    /\ last' = [NoCall EXCEPT !.op = "show_menu",
                              !.result = IF RunPosition(last) = "error"
                                         THEN "after an unexpected error"
                                         ELSE "after an action"]
    /\ UNCHANGED <<expenses, file, backups, config, config_file, now, stack, ret>>

\* choice "0", confirmed: the loop ends
exit ==
    /\ AtMenu
    /\ last' = [NoCall EXCEPT !.op = "exit", !.result = "None"]
    /\ UNCHANGED <<expenses, file, backups, config, config_file, now, stack, ret>>

\* a choice of the menu runs its handler
menu_choice ==
    /\ AtMenu
    /\ \/ \E d \in {D_May01, D_Feb30}, c \in {C_Food, T_Empty}, x \in {X_10, X_0, X_abc} :
             ui_add_expense(d, c, x, T_Lunch)
       \/ ui_add_expense_unwritable(D_May01, C_Food, X_10, T_Lunch)
       \/ \E n \in {N_1, N_x}, x \in {X_0, X_abc, T_Empty} :
             ui_edit_expense(n, T_Empty, T_Empty, x, T_Empty)
       \/ \E mo \in {M_May, M_Bad} : ui_set_budget(mo, K_Food, L_100)
       \/ ui_delete_budget(M_May, K_Food)
       \/ call_get_monthly_report(M_May)

NextLoop ==
    \/ menu_choice
    \/ get_monthly_report
    \/ get_budget_status
    \/ press_enter
    \/ exit

\* the user answers each "Press Enter to continue" prompt
SpecLoop == InitStore /\ [][NextLoop]_vars /\ WF_vars(press_enter)

\* what a handler prints when a check of the input fails
ValidationFailures ==
    {"Invalid date format. Please use YYYY-MM-DD.", "Category cannot be empty.",
     "Invalid amount. Please enter a positive number.", "Failed to add expense.",
     "Invalid input.", "Invalid date or amount format.",
     "Failed to update expense.", "Invalid month format."}

\* what a handler prints when the thing asked for is not there
NotFound_Messages ==
    {"No expenses found to edit.", "Invalid expense number.", "Budget not found."}

\* the action chosen at the menu has ended in a failure
ActionFailed ==
    /\ stack = <<>>
    /\ last.op \notin {"none", "show_menu", "exit"}
    /\ last.result \in ValidationFailures \cup NotFound_Messages \cup HandlerExceptions

\* C19: no failure of an action ends the session: the loop is left only by
\* the exit choice, and after every failed action (a validation failure, a
\* not-found answer, or an exception raised inside the action) the menu is
\* shown again
C19_LoopReturnsToMenu ==
    /\ [](RunPosition(last) # "aborted")
    /\ (ActionFailed ~> AtMenu)

\* the menu is shown again after an exception, the record appended by the
\* add that could not write still in memory
C19_Witness ==
    /\ last.op = "show_menu" /\ last.result = "after an unexpected error"
    /\ Len(expenses) > Len(file.rows)

----------------------------------------------------------------------------
(* The category list: ExpenseUI.manage_categories *)

\* a sorted list with x put after the elements that are not above it
InsertSorted(list, x) ==
    SubSeq(list, 1, Cardinality({i \in 1..Len(list) : StrLe(list[i], x)}))
    \o <<x>>
    \o SubSeq(list, Cardinality({i \in 1..Len(list) : StrLe(list[i], x)}) + 1, Len(list))

\* sorted(list) on a list of str
RECURSIVE SortedList(_)
SortedList(list) ==
    IF list = <<>> THEN <<>>
    ELSE InsertSorted(SortedList(SubSeq(list, 1, Len(list) - 1)), list[Len(list)])

\* x in list
Member(x, list) == \E i \in 1..Len(list) : list[i] = x

\* list.remove(x): the list without the first x
ListRemove(list, x) ==
    RemoveAt(list, (CHOOSE i \in 1..Len(list) :
                        list[i] = x /\ \A j \in 1..(i - 1) : list[j] # x) - 1)

CategoryCall(op, text) == [NoCall EXCEPT !.op = op, !.category = text]

\* manage_categories, action "add", for the name entered, lowered and stripped
AddCategory(call) ==
    IF call.category # <<>> /\ ~Member(call.category, config.categories)
    THEN Configured([call EXCEPT !.result = "Category added"],
                    [config EXCEPT !.categories =
                        SortedList(Append(config.categories, call.category))])
    ELSE Shows(call, "Category already exists or is empty")

\* ExpenseUI.manage_categories, action "add", with the user's answer
ui_add_category(answer) ==
    /\ stack = <<>>
    /\ AddCategory(CategoryCall("ui_add_category", Strip(Lower(get_input(answer, <<>>)))))

\* manage_categories, action "remove", for the name entered
RemoveCategory(call) ==
    IF config.categories = <<>> THEN Shows(call, "No categories to remove")
    ELSE IF Member(call.category, config.categories)
    THEN Configured([call EXCEPT !.result = "Category removed"],
                    [config EXCEPT !.categories = ListRemove(config.categories, call.category)])
    ELSE Shows(call, "None")

\* ExpenseUI.manage_categories, action "remove", with the user's answer
ui_remove_category(answer) ==
    /\ stack = <<>>
    /\ RemoveCategory(CategoryCall("ui_remove_category", get_input(answer, <<>>)))

\* ExpenseUI.manage_categories, action "reset", with the user's yes or no
ui_reset_categories(confirmed) ==
    /\ stack = <<>>
    /\ IF confirmed
       THEN Configured([NoCall EXCEPT !.op = "ui_reset_categories",
                                      !.result = "Categories reset to default"],
                       [config EXCEPT !.categories = DEFAULT_CATEGORIES])
       ELSE Shows([NoCall EXCEPT !.op = "ui_reset_categories"], "None")

G_Art  == <<"a", "r", "t">>
G_Zoo_ == <<" ", "Z", "o", "o">>
G_Zoo  == <<"z", "o", "o">>

NextCategories ==
    \/ \E g \in {G_Art, G_Zoo_, K_Food, T_Empty} : ui_add_category(g)
    \/ \E g \in {G_Art, G_Zoo, K_Food, K_Rent, X_abc, T_Empty} : ui_remove_category(g)
    \/ \E confirmed \in BOOLEAN : ui_reset_categories(confirmed)

SpecCategories == Init /\ [][NextCategories]_vars

\* the list is in ascending order of str
IsSorted(list) == \A i \in 1..(Len(list) - 1) : StrLe(list[i], list[i + 1])

\* C21: in every reachable state, the initial default configuration
\* included, the category list of the configuration is sorted and has no
\* duplicates
C21_CategoriesSorted ==
    /\ IsSorted(config.categories)
    /\ \A i, j \in 1..Len(config.categories) :
          config.categories[i] = config.categories[j] => i = j

----------------------------------------------------------------------------
(* Loading the configuration: ExpenseManager.load_config *)

\* what open() and json.load() find in place of a JSON document: no file,
\* text that is not JSON, bytes that are not UTF-8
Absent  == [kind |-> "absent"]
NotJson == [kind |-> "not JSON"]
NotUtf8 == [kind |-> "not UTF-8"]

\* json.load(file) returns
Parses(f) == "kind" \notin DOMAIN f

\* the default configuration is put in memory, the file is left as found
LoadConfig_NotWritten(f) ==
    IF f \in {Absent, NotJson}
    THEN [config |-> DefaultConfig, config_file |-> f, result |-> "default written"]
    ELSE IF ~Parses(f)
    THEN [config |-> config, config_file |-> f, result |-> "UnicodeDecodeError"]
    ELSE [config |-> JsonLoad(f), config_file |-> f, result |-> "loaded"]

\* load_config on the file f: FileNotFoundError and JSONDecodeError lead to
\* _create_config_file() and a second load_config(), which loads what was
\* just written; a UnicodeDecodeError is not caught
LoadConfig(f) ==
    IF f \in {Absent, NotJson}
    THEN [config |-> JsonLoad(JsonDump(DefaultConfig)),
          config_file |-> JsonDump(DefaultConfig), result |-> "default written"]
    ELSE IF ~Parses(f)
    THEN [config |-> config, config_file |-> f, result |-> "UnicodeDecodeError"]
    ELSE [config |-> JsonLoad(f), config_file |-> f, result |-> "loaded"]

\* the call ends as r says
Loaded(r) ==
    /\ last' = [NoCall EXCEPT !.op = "load_config", !.result = r.result]
    /\ config' = r.config
    /\ config_file' = r.config_file
    /\ UNCHANGED <<expenses, file, backups, now, stack, ret>>

\* ExpenseManager.load_config()
load_config ==
    /\ stack = <<>>
    /\ Loaded(LoadConfig(config_file))

\* a configuration edited by hand
EditedConfig ==
    [DefaultConfig EXCEPT !.currency = "$", !.auto_backup = FALSE,
                          !.categories = <<K_Rent, K_Food>>]

\* between two loads the file is deleted, damaged or edited outside the program
config_file_replaced(f) ==
    /\ stack = <<>>
    /\ config_file' = f
    /\ last' = NoCall
    /\ UNCHANGED <<expenses, file, backups, config, now, stack, ret>>

NextConfig ==
    \/ load_config
    \/ \E f \in {Absent, NotJson, NotUtf8, JsonDump(EditedConfig)} : config_file_replaced(f)
    \/ toggle_auto_backup
    \/ \E g \in {G_Art, K_Food} : ui_add_category(g)
    \/ \E limit \in {A_100, A_5_5} : set_budget(M_May, K_Food, limit)

SpecConfig == Init /\ [][NextConfig]_vars

----------------------------------------------------------------------------
(* The budget view: ExpenseUI.manage_budgets, action "view" *)

\* what the view does with the report get_monthly_report returned: it reads
\* report['budget_status'], then shows the table or the warning
ViewBudget(report) ==
    IF ~report.has_status THEN "KeyError"
    ELSE IF DOMAIN report.budget_status = {} THEN "No budgets set"
    ELSE "Budget Status"

\* C23: the report of get_monthly_report(month) carries a budget_status for
\* every month and store, a month without records included, so that the
\* budget view does not fail and shows every budgeted category of a month
\* without records with spent = 0
C23_ReportCarriesBudgetStatus ==
    (stack = <<>> /\ last.op = "get_monthly_report"
     /\ MonthlyExpenses(expenses, last.month) = <<>>)
        => /\ last.result = "returned"
           /\ ret.has_status
           /\ ViewBudget(ret) # "KeyError"
           /\ last.month \in DOMAIN config.budgets
                 => /\ DOMAIN ret.budget_status = DOMAIN config.budgets[last.month]
                    /\ \A c \in DOMAIN ret.budget_status :
                          Cents(ret.budget_status[c].spent) = 0

----------------------------------------------------------------------------
(* Mutations whose file rewrite fails: save_expenses raises OSError *)

\* the file a failed save_expenses leaves: as it was when open() raised
\* (written = -1), else truncated by open() and holding the header and the
\* rows written before the write raised
FailedSave(exps, written) ==
    IF written < 0 THEN file
    ELSE [header |-> Fieldnames,
          rows |-> SubSeq(SavedFile(exps).rows, 1, written)]

\* the store a mutation leaves when save_expenses raises after self.expenses
\* was set to exps: the exception leaves the call, nothing is undone
Unsaved(exps, written) ==
    [result |-> "OSError", expenses |-> exps,
     file |-> FailedSave(exps, written), backups |-> backups]

\* writes that stop before the last row of exps
PartialWrites(exps) == -1..(Len(exps) - 1)

\* ExpenseManager.add_expense with arguments that pass its checks, the save
\* raising
add_expense_unsaved(date_str, category, amount, description, written) ==
    /\ stack = <<>>
    /\ Len(expenses) < MaxLen
    /\ validate_date(config, date_str)
    /\ validate_amount(DecimalToString(amount)) = "True"
    /\ written \in PartialWrites(Append(expenses, Expense(date_str, Strip(Lower(category)), amount, Strip(description))))
    /\ Returns(Call("add_expense", -1, date_str, category, amount, description, "none"),
               Unsaved(Append(expenses, Expense(date_str, Strip(Lower(category)),
                                                amount, Strip(description))),
                       written))

\* ExpenseManager.edit_expense with arguments that pass its checks, the save
\* raising
edit_expense_unsaved(index, date_str, category, amount, description, written) ==
    /\ stack = <<>>
    /\ InRange(index, expenses)
    /\ validate_date(config, date_str)
    /\ validate_amount(DecimalToString(amount)) = "True"
    /\ written \in PartialWrites(expenses)
    /\ Returns(Call("edit_expense", index, date_str, category, amount, description, "none"),
               Unsaved(ReplaceAt(expenses, index,
                                 Expense(date_str, Strip(Lower(category)),
                                         amount, Strip(description))),
                       written))

\* ExpenseManager.delete_expense of an index in range, the save raising
delete_expense_unsaved(index, written) ==
    /\ stack = <<>>
    /\ InRange(index, expenses)
    /\ written \in PartialWrites(RemoveAt(expenses, index))
    /\ Returns(Call("delete_expense", index, <<>>, <<>>, DecInvalid, <<>>, "none"),
               Unsaved(RemoveAt(expenses, index), written))

NextFailure ==
    \/ \E d \in {D_May01, D_Feb30}, a \in {A_10_00, A_5_5} : add_expense(d, C_Food, a, T_Lunch)
    \/ \E i \in {0, 1} : edit_expense(i, D_Jun15, C_Rent, A_5_5, T_Empty)
    \/ \E i \in {0, 1} : delete_expense(i)
    \/ \E a \in {A_10_00, A_5_5}, w \in -1..MaxLen : add_expense_unsaved(D_May01, C_Food, a, T_Lunch, w)
    \/ \E i \in {0, 1}, w \in -1..MaxLen : edit_expense_unsaved(i, D_Jun15, C_Rent, A_5_5, T_Empty, w)
    \/ \E i \in {0, 1}, w \in -1..MaxLen : delete_expense_unsaved(i, w)

SpecFailure == InitStore /\ [][NextFailure]_vars

\* C24: a mutation whose file rewrite fails leaves the in-memory sequence as
\* it was before the call, and the records in memory are those of the file
C24_FailedRewriteLeavesMemory ==
    [][(last'.op \in {"add_expense", "edit_expense", "delete_expense"}
        /\ last'.result = "OSError")
          => /\ expenses' = expenses
             /\ LoadedExpenses(file') = expenses']_vars

====
